---- MODULE Spec2Model ----
(***************************************************************************)
(* Seat hold / booking coordination of the Movie Reservation API.          *)
(*                                                                         *)
(* The model follows src/app/main.py: hold_seats (PlaceHold),              *)
(* confirm_reservation (Confirm) and get_seats (GetSeatStatuses), the      *)
(* booked_seats table with its (showtime_id, seat_id) uniqueness           *)
(* constraint (src/app/models.py) and the Redis keys hold:<showtime>:<seat>*)
(* with their time to live.  Requests run concurrently: a handler is split *)
(* at its accesses to the database and to Redis, one action per access.    *)
(* A step that only reads the immutable seats table, or that only returns, *)
(* is merged with the access next to it.  The seats are fixed.  The admin  *)
(* endpoints of the showtimes (src/app/crud.py) and signup and login       *)
(* (src/app/auth.py) are served one call after another, in specifications  *)
(* of their own.                                                           *)
(***************************************************************************)
EXTENDS Integers, Sequences, FiniteSets, Bags, TLC

\* ------------------------------------------------------------------ bounds
NumProcs     == 2      \* requests in flight at the same time
MaxReservations == 2   \* rows the reservations table may grow to
MaxReservationsWindow == 3  \* the same, while the clock stands still
MaxReservationsOps == 1  \* the same, with the status view and failing calls
NumSeats     == 3      \* rows of the seats table, ids 1..NumSeats
MaxSeatContended == 2  \* concurrent requests ask for seats 1..MaxSeatContended
NumShowtimes == 1      \* showtime ids 1..NumShowtimes
MaxSeatIds   == 2      \* longest seat_ids list of a request
MaxSeatIdsWindow == 1   \* the same, while the clock stands still
TickSeconds  == 300    \* seconds the clock advances by in one step
MaxTime      == 600    \* the clock stops ticking here, in seconds
NumAuditoriums == 2    \* auditorium ids 1..NumAuditoriums
MaxShowtimeRows == 3   \* showtime ids the showtimes table may grow to
MaxShowTime  == 2      \* starts_at and ends_at of a showtime are in 0..MaxShowTime
NumSalts     == 2      \* salts a password hash is made with

\* settings.HOLD_TTL_SECONDS
HOLD_TTL_SECONDS == 600

\* settings.ACCESS_TOKEN_EXPIRE_MINUTES, settings.REFRESH_TOKEN_EXPIRE_DAYS
ACCESS_TOKEN_EXPIRE_MINUTES == 30
REFRESH_TOKEN_EXPIRE_DAYS == 7

Seats     == 1..NumSeats
SeatIds   == 1..(NumSeats + 1)          \* NumSeats + 1 names no seat
Showtimes == 1..NumShowtimes

\* every list of length 0..MaxSeatIds over SeatIds
SeatIdLists == UNION {[1..n -> SeatIds] : n \in 0..MaxSeatIds}

\* the lists concurrent requests send: the contended seats and the unknown id
ContendedLists ==
    UNION {[1..n -> (1..MaxSeatContended) \cup {NumSeats + 1}] : n \in 0..MaxSeatIds}

\* seats.auditorium_id: every seat of the model is in the first auditorium
SeatAuditorium(s) == 1

\* the showtimes table the seat requests are served with: showtimes 1..NumShowtimes
\* play in the first auditorium, one more plays in another auditorium
CatalogShowtimes ==
    [t \in 1..(NumShowtimes + 1) |->
        [auditorium_id |-> IF t <= NumShowtimes THEN 1 ELSE 2,
         starts_at |-> 0, ends_at |-> 0]]

NoHold == [value |-> 0, expires |-> 0]          \* key absent from Redis

\* a request that has just been received
NewRequest ==
    [op |-> "none", pc |-> "new", showtime_id |-> 0, seat_ids |-> <<>>,
     reservation_id |-> 0, i |-> 0, keys |-> {}, held_seats |-> {}, after |-> {},
     booked_ids |-> {}, statuses |-> <<>>]

NoResponse ==
    [op |-> "none", result |-> "none", showtime_id |-> 0, seat_ids |-> <<>>,
     reservation_id |-> 0, held_seats |-> {}, after |-> {}, statuses |-> <<>>,
     request |-> <<>>, body |-> <<>>]

\* the scenario monitor when it follows nothing
NoScenario == [on |-> FALSE, stage |-> 0, reservation_id |-> 0]

\* the view monitor of a showtime no status view has been recorded for
NoView == [statuses |-> <<>>, lapsed |-> FALSE, again |-> FALSE]

VARIABLES
    redis_client,   \* TRUE: connected client, FALSE: None (redis_client.py)
    now,            \* the clock
    reservations,   \* reservations table: sequence indexed by id
    booked_seats,   \* booked_seats table: set of rows
    redis,          \* Redis: <<showtime, seat>> -> entry or NoHold
    inflight,       \* the requests being served: a bag of request records
    response,       \* the response the last step returned, if it returned one
    placed,         \* history, per reservation id: the PlaceHold call that made it
    showtimes,      \* showtimes table: sequence indexed by id
    users,          \* users table: sequence indexed by id
    signups,        \* history: the (email, password) pairs signed up with
    scenario,       \* history: how far the requests so far follow the scenario
    view            \* history, per showtime: the last status view, no write since

vars == <<redis_client, now, reservations, booked_seats, redis, inflight, response, placed,
          showtimes, users, signups, scenario, view>>

\* ------------------------------------------------------------ key handling
\* f'hold:{showtime_id}:{sid}' as its colon-separated fields
HoldKey(showtime_id, sid) == <<"hold", showtime_id, sid>>

\* int(k.split(':')[-1])
KeySeat(k) == k[Len(k)]

\* redis_client.keys(f'hold:{showtime_id}:*'): the live keys of a showtime
RedisKeys(showtime_id) ==
    {HoldKey(showtime_id, s) : s \in {x \in Seats : redis[<<showtime_id, x>>] # NoHold}}

\* a get that finds nothing, whatever is stored
RedisGet_Nothing(k) == 0

\* redis_client.get(k): the stored value, 0 for None
RedisGet(k) == redis[<<k[2], k[3]>>].value

Range(f) == {f[x] : x \in DOMAIN f}

\* ------------------------------------------------------- requests in flight
Requests == BagToSet(inflight)

\* the response a request returns with
ResponseOf(me, result) ==
    [op |-> me.op, result |-> result, showtime_id |-> me.showtime_id,
     seat_ids |-> me.seat_ids, reservation_id |-> me.reservation_id,
     held_seats |-> me.held_seats, after |-> me.after, statuses |-> me.statuses,
     request |-> <<>>, body |-> <<>>]

\* is resp the answer to the call the scenario makes at this stage: PlaceHold
\* of seats 1 and 2, the status view, Confirm, the status view, PlaceHold of
\* seat 1, all for showtime 1
ScenarioCall(stage, resp) ==
    \/ stage = 0 /\ resp.op = "hold" /\ resp.showtime_id = 1 /\ resp.seat_ids = <<1, 2>>
    \/ stage \in {1, 3} /\ resp.op = "get_seats" /\ resp.showtime_id = 1
    \/ stage = 2 /\ resp.op = "confirm" /\ resp.reservation_id = scenario.reservation_id
    \/ stage = 4 /\ resp.op = "hold" /\ resp.showtime_id = 1 /\ resp.seat_ids = <<1>>

\* the scenario monitor after a response: one stage further if the response
\* answers the scenario's next call, followed no longer otherwise (another
\* call, or a call that died with a 500)
Follow(resp) ==
    IF scenario.on /\ ScenarioCall(scenario.stage, resp) /\ resp.result # "InternalError"
    THEN [on |-> TRUE, stage |-> scenario.stage + 1,
          reservation_id |-> IF scenario.stage = 0 THEN resp.reservation_id
                             ELSE scenario.reservation_id]
    ELSE NoScenario

\* does this step of request `old` write to a table or to Redis: the insert of
\* main.py 135-136, a setex, a commit that succeeds, a delete
Wrote(old, result) ==
    /\ old.op \in {"hold", "confirm"}
    /\ old.pc \in {"insert", "setex", "commit", "delete"}
    /\ result \notin {"InternalError", "SeatConflict"}

\* the view monitor after a step of request `old`: a status view is recorded,
\* a write forgets the views recorded
Seen(old, resp) ==
    IF resp.op = "get_seats" /\ resp.result = "ok"
    THEN [view EXCEPT ![resp.showtime_id] =
             [statuses |-> resp.statuses, lapsed |-> FALSE,
              again |-> view[resp.showtime_id].statuses # <<>>
                        /\ ~view[resp.showtime_id].lapsed]]
    ELSE IF Wrote(old, resp.result) THEN [t \in DOMAIN view |-> NoView]
    ELSE view

\* a request is received and goes on as `me`
Starts(me) ==
    /\ BagCardinality(inflight) < NumProcs
    /\ inflight' = inflight (+) SetToBag({me})
    /\ response' = NoResponse
    /\ scenario' = IF inflight = EmptyBag THEN scenario ELSE NoScenario
    /\ UNCHANGED <<showtimes, users, signups, view>>

\* a request is answered by the step that received it
Answers(me, result) ==
    /\ BagCardinality(inflight) < NumProcs
    /\ inflight' = inflight
    /\ response' = ResponseOf(me, result)
    /\ scenario' = IF inflight = EmptyBag THEN Follow(ResponseOf(me, result))
                   ELSE NoScenario
    /\ view' = Seen(me, ResponseOf(me, result))
    /\ UNCHANGED <<showtimes, users, signups>>

\* request `old` goes on as `me`: no response
Continues(old, me) ==
    /\ inflight' = (inflight (-) SetToBag({old})) (+) SetToBag({me})
    /\ response' = NoResponse
    /\ view' = Seen(old, NoResponse)
    /\ UNCHANGED <<showtimes, users, signups, scenario>>

\* request `old` returns, `me` being its last state
Returns(old, me, result) ==
    /\ inflight' = inflight (-) SetToBag({old})
    /\ response' = ResponseOf(me, result)
    /\ scenario' = Follow(ResponseOf(me, result))
    /\ view' = Seen(old, ResponseOf(me, result))
    /\ UNCHANGED <<showtimes, users, signups>>

\* --------------------------------------------------------------- hold_seats
\* db.query(Seat).filter(Seat.id.in_(seat_ids)).all(): one row per matching seat
SeatRows(seat_ids) == {s \in Seats : s \in Range(seat_ids)}

\* len(seats) != len(seat_ids)
InvalidSelection(seat_ids) == Cardinality(SeatRows(seat_ids)) # Len(seat_ids)

\* the booked rows of the showtime among seat_ids
BookedAmong(showtime_id, seat_ids) ==
    {b \in booked_seats : b.showtime_id = showtime_id /\ b.seat_id \in Range(seat_ids)}

\* the two checks the other way round
HoldPrecheck_BookedFirst(showtime_id, seat_ids) ==
    IF BookedAmong(showtime_id, seat_ids) # {} THEN "SeatsAlreadyBooked"
    ELSE IF InvalidSelection(seat_ids) THEN "InvalidSeatSelection"
    ELSE "pass"

\* the two database checks of hold_seats, in the order of the code
HoldPrecheck(showtime_id, seat_ids) ==
    IF InvalidSelection(seat_ids) THEN "InvalidSeatSelection"
    ELSE IF BookedAmong(showtime_id, seat_ids) # {} THEN "SeatsAlreadyBooked"
    ELSE "pass"

\* the reservations whose PlaceHold call has returned
ReturnedHolds == {r \in DOMAIN placed : placed[r].returned}

\* the PlaceHold calls that have yet to insert their reservation row
HoldsBeforeInsert ==
    BagCardinality([r \in {x \in Requests : x.op = "hold" /\ x.reservation_id = 0}
                       |-> inflight[r]])

\* lines 106-119, and the branch of line 122
HoldCall(showtime_id, seat_ids) ==
    /\ LET r == HoldPrecheck(showtime_id, seat_ids)
           me == [NewRequest EXCEPT !.op = "hold", !.showtime_id = showtime_id,
                                    !.seat_ids = seat_ids, !.after = ReturnedHolds]
       IN IF r # "pass" THEN Answers([me EXCEPT !.after = {}], r)
          ELSE IF redis_client /\ seat_ids # <<>>
               THEN Starts([me EXCEPT !.pc = "check_held", !.i = 1])
               ELSE Starts([me EXCEPT !.pc = "insert"])
    /\ UNCHANGED <<redis_client, now, reservations, booked_seats, redis, placed>>

\* the held check that frees the seat it found held before it raises
HoldCheckHeld_Release(me) ==
    /\ me.op = "hold" /\ me.pc = "check_held"
    /\ LET k == HoldKey(me.showtime_id, me.seat_ids[me.i])
       IN IF RedisGet(k) # 0
          THEN /\ redis' = [redis EXCEPT ![<<k[2], k[3]>>] = NoHold]
               /\ Returns(me, me, "SeatsAlreadyHeld")
          ELSE /\ redis' = redis
               /\ IF me.i < Len(me.seat_ids)
                  THEN Continues(me, [me EXCEPT !.i = me.i + 1])
                  ELSE Continues(me, [me EXCEPT !.pc = "insert", !.i = 0])
    /\ UNCHANGED <<redis_client, now, reservations, booked_seats, placed>>

\* lines 123-125: one redis_client.get per seat id
HoldCheckHeld(me) ==
    /\ me.op = "hold" /\ me.pc = "check_held"
    /\ LET k == HoldKey(me.showtime_id, me.seat_ids[me.i])
       IN IF RedisGet(k) # 0 THEN Returns(me, me, "SeatsAlreadyHeld")
          ELSE IF me.i < Len(me.seat_ids) THEN Continues(me, [me EXCEPT !.i = me.i + 1])
          ELSE Continues(me, [me EXCEPT !.pc = "insert", !.i = 0])
    /\ UNCHANGED <<redis_client, now, reservations, booked_seats, redis, placed>>

\* the row created in another status
NewReservation_Pending(showtime_id) ==
    [showtime_id |-> showtime_id, status |-> "pending",
     expires_at |-> now + HOLD_TTL_SECONDS]

\* lines 128-134
NewReservation(showtime_id) ==
    [showtime_id |-> showtime_id, status |-> "held",
     expires_at |-> now + HOLD_TTL_SECONDS]

\* lines 127-137, and the branch of line 140; line 148 when nothing is to be set
HoldInsert(me) ==
    /\ me.op = "hold" /\ me.pc = "insert"
    /\ reservations' = Append(reservations, NewReservation(me.showtime_id))
    /\ LET mine == [me EXCEPT !.reservation_id = Len(reservations) + 1]
           returns == ~(redis_client /\ me.seat_ids # <<>>)
       IN /\ IF returns THEN Returns(me, mine, "ok")
             ELSE Continues(me, [mine EXCEPT !.pc = "setex", !.i = 1])
          /\ placed' = Append(placed, [seats |-> Range(me.seat_ids),
                                       returned |-> returns, early |-> FALSE])
    /\ UNCHANGED <<redis_client, now, booked_seats, redis>>

\* redis_client.set in place of setex: the entry never expires
HoldEntry_NoExpiry(reservation_id) ==
    [value |-> reservation_id, expires |-> MaxTime + TickSeconds + HOLD_TTL_SECONDS]

\* the entry written with the id the next reservation row will get
HoldEntry_NextId(reservation_id) ==
    [value |-> Len(reservations) + 1, expires |-> now + HOLD_TTL_SECONDS]

\* the entry redis_client.setex(key, HOLD_TTL_SECONDS, reservation.id) stores
HoldEntry(reservation_id) ==
    [value |-> reservation_id, expires |-> now + HOLD_TTL_SECONDS]

\* lines 141-148: one redis_client.setex per seat id, then the return
HoldSetex(me) ==
    /\ me.op = "hold" /\ me.pc = "setex"
    /\ LET last == me.i = Len(me.seat_ids)
       IN /\ redis' = [redis EXCEPT ![<<me.showtime_id, me.seat_ids[me.i]>>] =
                          HoldEntry(me.reservation_id)]
          /\ IF last THEN Returns(me, me, "ok")
             ELSE Continues(me, [me EXCEPT !.i = me.i + 1])
          /\ placed' = [placed EXCEPT ![me.reservation_id].returned = last]
    /\ UNCHANGED <<redis_client, now, reservations, booked_seats>>

\* the request dies between the commit of line 136 and a setex of line 142
\* (the process is killed, or the Redis call raises)
HoldAbort(me) ==
    /\ me.op = "hold" /\ me.pc = "setex"
    /\ Returns(me, me, "InternalError")
    /\ UNCHANGED <<redis_client, now, reservations, booked_seats, redis, placed>>

\* ------------------------------------------------------ confirm_reservation
\* the query without its status filter
HeldReservation_AnyStatus(reservation_id) == reservation_id \in DOMAIN reservations

\* lines 154-157: the row with this id and status 'held', if any
HeldReservation(reservation_id) ==
    /\ reservation_id \in DOMAIN reservations
    /\ reservations[reservation_id].status = "held"

\* line 169: not held_seats
NothingHeld_Never(held_seats) == FALSE

NothingHeld(held_seats) == held_seats = {}

\* redis_client.get(k) == str(reservation_id), with a wrong comparison
OwnsKey_AnyValue(k, reservation_id) == RedisGet(k) # 0

\* redis_client.get(k) == str(reservation_id)
OwnsKey(k, reservation_id) == RedisGet(k) = reservation_id

\* lines 154-160, and lines 163-170 without Redis
ConfirmCall(reservation_id) ==
    /\ LET me == [NewRequest EXCEPT !.op = "confirm", !.reservation_id = reservation_id]
       IN IF ~HeldReservation(reservation_id)
          THEN /\ Answers(me, "ReservationNotFound")
               /\ UNCHANGED placed
          ELSE /\ LET mine == [me EXCEPT !.showtime_id =
                                   reservations[reservation_id].showtime_id]
                  IN IF redis_client THEN Starts([mine EXCEPT !.pc = "scan"])
                     ELSE IF NothingHeld({}) THEN Answers(mine, "HoldExpired")
                     ELSE Starts([mine EXCEPT !.pc = "commit"])
               /\ placed' = [placed EXCEPT ![reservation_id].early =
                                @ \/ \E x \in Requests : x.op = "hold"]
    /\ UNCHANGED <<redis_client, now, reservations, booked_seats, redis>>

\* lines 165-166: redis_client.keys(pattern)
ConfirmScan(me) ==
    /\ me.op = "confirm" /\ me.pc = "scan"
    /\ LET ks == RedisKeys(me.showtime_id)
       IN IF ks # {} THEN Continues(me, [me EXCEPT !.pc = "get", !.keys = ks])
          ELSE IF NothingHeld({}) THEN Returns(me, me, "HoldExpired")
          ELSE Continues(me, [me EXCEPT !.pc = "commit"])
    /\ UNCHANGED <<redis_client, now, reservations, booked_seats, redis, placed>>

\* lines 167-170: one redis_client.get per key, in the order keys() gave them
ConfirmGet(me, k) ==
    /\ me.op = "confirm" /\ me.pc = "get"
    /\ k \in me.keys
    /\ LET held == me.held_seats \cup
                   (IF OwnsKey(k, me.reservation_id) THEN {KeySeat(k)} ELSE {})
           rest == me.keys \ {k}
       IN IF rest # {} THEN Continues(me, [me EXCEPT !.keys = rest, !.held_seats = held])
          ELSE IF NothingHeld(held) THEN Returns(me, [me EXCEPT !.keys = {}], "HoldExpired")
          ELSE Continues(me, [me EXCEPT !.pc = "commit", !.keys = {}, !.held_seats = held])
    /\ UNCHANGED <<redis_client, now, reservations, booked_seats, redis, placed>>

\* a row for the first seat only
BookedRows_OneSeat(showtime_id, reservation_id, seats) ==
    {[showtime_id |-> showtime_id, seat_id |-> s, reservation_id |-> reservation_id]
        : s \in {x \in seats : \A y \in seats : x <= y}}

\* lines 175-179: the rows to insert
BookedRows(showtime_id, reservation_id, seats) ==
    {[showtime_id |-> showtime_id, seat_id |-> s, reservation_id |-> reservation_id]
        : s \in seats}

\* no uniqueness constraint on the table
UniqueViolation_Never(showtime_id, seats) == FALSE

\* UniqueConstraint('showtime_id', 'seat_id'): would inserting these rows break it
UniqueViolation(showtime_id, seats) ==
    \E b \in booked_seats : b.showtime_id = showtime_id /\ b.seat_id \in seats

\* no rollback: the rows flushed before the failing one stay
AfterRollback_Partial(rows) ==
    {r \in rows : ~\E b \in booked_seats :
                      b.showtime_id = r.showtime_id /\ b.seat_id = r.seat_id}

\* line 184, db.rollback(): what is left of the rows the transaction added
AfterRollback(rows) == {}

\* lines 172-185: the transaction, committed or rolled back as a whole;
\* lines 188-192 when there is no key to delete
ConfirmCommit(me) ==
    /\ me.op = "confirm" /\ me.pc = "commit"
    /\ IF UniqueViolation(me.showtime_id, me.held_seats)
       THEN /\ Returns(me, me, "SeatConflict")
            /\ booked_seats' = booked_seats \cup AfterRollback(
                   BookedRows(me.showtime_id, me.reservation_id, me.held_seats))
            /\ UNCHANGED reservations
       ELSE /\ booked_seats' = booked_seats \cup
                   BookedRows(me.showtime_id, me.reservation_id, me.held_seats)
            /\ reservations' =
                   [reservations EXCEPT ![me.reservation_id].status = "confirmed"]
            /\ IF redis_client /\ me.held_seats # {}
               THEN Continues(me, [me EXCEPT !.pc = "delete", !.keys = me.held_seats])
               ELSE Returns(me, me, "confirmed")
    /\ UNCHANGED <<redis_client, now, redis, placed>>

\* lines 188-192: one redis_client.delete per held seat, then the return
ConfirmDelete(me, sid) ==
    /\ me.op = "confirm" /\ me.pc = "delete"
    /\ sid \in me.keys
    /\ redis' = [redis EXCEPT ![<<me.showtime_id, sid>>] = NoHold]
    /\ IF me.keys = {sid} THEN Returns(me, [me EXCEPT !.keys = {}], "confirmed")
       ELSE Continues(me, [me EXCEPT !.keys = @ \ {sid}])
    /\ UNCHANGED <<redis_client, now, reservations, booked_seats, placed>>

\* ---------------------------------------------------------------- get_seats
\* lines 73-97, as one read of both stores: seat id -> status
get_seats(showtime_id) ==
    LET booked_ids == {b.seat_id : b \in {x \in booked_seats : x.showtime_id = showtime_id}}
        held_ids == IF redis_client
                    THEN {KeySeat(k) : k \in RedisKeys(showtime_id)}
                    ELSE {}
    IN [s \in Seats |->
           IF s \in booked_ids THEN "booked"
           ELSE IF s \in held_ids THEN "held"
           ELSE "available"]

\* held checked before booked
SeatStatus_HeldFirst(s, booked_ids, held_ids) ==
    IF s \in held_ids THEN "held"
    ELSE IF s \in booked_ids THEN "booked"
    ELSE "available"

\* lines 85-89: the status of one seat
SeatStatus(s, booked_ids, held_ids) ==
    IF s \in booked_ids THEN "booked"
    ELSE IF s \in held_ids THEN "held"
    ELSE "available"

\* the rows in an order that changes with time
StatusList_Unordered(booked_ids, held_ids) ==
    [i \in 1..NumSeats |->
        LET s == IF now = 0 THEN i ELSE NumSeats + 1 - i
        IN [id |-> s, status |-> IF s \in booked_ids THEN "booked"
                                 ELSE IF s \in held_ids THEN "held"
                                 ELSE "available"]]

\* lines 73 and 83-97: one entry per row of the seats table, in table order
StatusList(booked_ids, held_ids) ==
    [s \in 1..NumSeats |-> [id |-> s, status |-> SeatStatus(s, booked_ids, held_ids)]]

\* lines 73-79: the two queries; the whole handler when redis_client is None
GetSeats(showtime_id) ==
    /\ LET booked_ids == {b.seat_id : b \in {x \in booked_seats :
                                                x.showtime_id = showtime_id}}
           me == [NewRequest EXCEPT !.op = "get_seats", !.showtime_id = showtime_id,
                                    !.booked_ids = booked_ids]
       IN IF redis_client THEN Starts([me EXCEPT !.pc = "keys"])
          ELSE Answers([me EXCEPT !.statuses = StatusList(booked_ids, {})], "ok")
    /\ UNCHANGED <<redis_client, now, reservations, booked_seats, redis, placed>>

\* lines 80-97: redis_client.keys, the classification and the return
GetSeatsKeys(me) ==
    /\ me.op = "get_seats" /\ me.pc = "keys"
    /\ LET held_ids == {KeySeat(k) : k \in RedisKeys(me.showtime_id)}
       IN Returns(me, [me EXCEPT !.statuses = StatusList(me.booked_ids, held_ids)], "ok")
    /\ UNCHANGED <<redis_client, now, reservations, booked_seats, redis, placed>>

\* ----------------------------------------------------------------- failures
\* a Redis call of a handler raises (the server cannot be reached): no handler
\* catches it, the request ends with a 500
RedisError(me) ==
    /\ me.pc \in {"check_held", "setex", "scan", "get", "delete", "keys"}
    /\ Returns(me, me, "InternalError")
    /\ UNCHANGED <<redis_client, now, reservations, booked_seats, redis, placed>>

\* the first query of a handler raises (the database cannot be reached): a 500
DbErrorAtCall(op) ==
    /\ Answers([NewRequest EXCEPT !.op = op], "InternalError")
    /\ UNCHANGED <<redis_client, now, reservations, booked_seats, redis, placed>>

\* main.py 135-136: db.commit() of hold_seats raises: a 500, no row
HoldInsertError(me) ==
    /\ me.op = "hold" /\ me.pc = "insert"
    /\ Returns(me, me, "InternalError")
    /\ UNCHANGED <<redis_client, now, reservations, booked_seats, redis, placed>>

\* main.py 182-185: db.commit() of confirm_reservation raises for another
\* reason than the uniqueness constraint: except Exception catches it all the
\* same, rolls back and raises the 409 of a seat conflict
CommitError(me) ==
    /\ me.op = "confirm" /\ me.pc = "commit"
    /\ inflight' = inflight (-) SetToBag({me})
    /\ response' = ResponseOf(me, "SeatConflict")
    /\ scenario' = NoScenario
    /\ UNCHANGED <<redis_client, now, reservations, booked_seats, redis, placed,
                   showtimes, users, signups, view>>

\* ------------------------------------------------------------- showtimes
\* schemas.ShowtimeCreate, its movie_id and base_price left out
ShowtimeInputs ==
    [auditorium_id : 1..NumAuditoriums,
     starts_at : 0..MaxShowTime, ends_at : 0..MaxShowTime]

\* the test of an overlap that looks at the start of the new showtime only
Overlapping_StartOnly(row, showtime_in) ==
    /\ row.auditorium_id = showtime_in.auditorium_id
    /\ row.starts_at <= showtime_in.starts_at
    /\ row.ends_at > showtime_in.starts_at

\* crud.py 143-147 and 174-178: the filter of the overlap query
Overlapping(row, showtime_in) ==
    /\ row.auditorium_id = showtime_in.auditorium_id
    /\ row.starts_at < showtime_in.ends_at
    /\ row.ends_at > showtime_in.starts_at

\* the id the table gives the next row: one more than the highest id
NextShowtimeId ==
    IF DOMAIN showtimes = {} THEN 1
    ELSE 1 + CHOOSE i \in DOMAIN showtimes : \A j \in DOMAIN showtimes : j <= i

\* a request of the admin or auth endpoints, served in one step: it answers
\* and touches neither the seat tables nor Redis
AdminAnswers(resp) ==
    /\ inflight = EmptyBag
    /\ response' = resp
    /\ scenario' = NoScenario
    /\ UNCHANGED <<redis_client, now, reservations, booked_seats, redis, inflight,
                   placed, view>>

\* crud.py 141-156 and main.py 322-328
create_showtime(showtime_in) ==
    LET overlapping == {i \in DOMAIN showtimes : Overlapping(showtimes[i], showtime_in)}
        id == NextShowtimeId
    IN /\ IF overlapping # {}
          THEN /\ showtimes' = showtimes
               /\ AdminAnswers([NoResponse EXCEPT !.op = "create_showtime",
                                   !.result = "ShowtimeOverlap", !.request = showtime_in])
          ELSE /\ id <= MaxShowtimeRows
               /\ showtimes' = [i \in DOMAIN showtimes \cup {id} |->
                                   IF i = id THEN showtime_in ELSE showtimes[i]]
               /\ AdminAnswers([NoResponse EXCEPT !.op = "create_showtime",
                                   !.result = "ok", !.showtime_id = id,
                                   !.request = showtime_in, !.body = showtime_in])
       /\ UNCHANGED <<users, signups>>

\* crud.py 167-187 and main.py 347-353: None, and the 409, also for an id that
\* is not in the table
update_showtime(showtime_id, showtime_in) ==
    LET overlapping == {i \in DOMAIN showtimes :
                           i # showtime_id /\ Overlapping(showtimes[i], showtime_in)}
    IN /\ IF showtime_id \notin DOMAIN showtimes \/ overlapping # {}
          THEN /\ showtimes' = showtimes
               /\ AdminAnswers([NoResponse EXCEPT !.op = "update_showtime",
                                   !.result = "ShowtimeOverlap",
                                   !.showtime_id = showtime_id, !.request = showtime_in])
          ELSE /\ showtimes' = [showtimes EXCEPT ![showtime_id] = showtime_in]
               /\ AdminAnswers([NoResponse EXCEPT !.op = "update_showtime",
                                   !.result = "ok", !.showtime_id = showtime_id,
                                   !.request = showtime_in, !.body = showtime_in])
       /\ UNCHANGED <<users, signups>>

\* crud.py 190-195 and main.py 356-362
delete_showtime(showtime_id) ==
    /\ IF showtime_id \in DOMAIN showtimes
       THEN /\ showtimes' = [i \in DOMAIN showtimes \ {showtime_id} |-> showtimes[i]]
            /\ AdminAnswers([NoResponse EXCEPT !.op = "delete_showtime",
                                !.result = "deleted", !.showtime_id = showtime_id])
       ELSE /\ showtimes' = showtimes
            /\ AdminAnswers([NoResponse EXCEPT !.op = "delete_showtime",
                                !.result = "NotFound", !.showtime_id = showtime_id])
    /\ UNCHANGED <<users, signups>>

\* ---------------------------------------------------------- signup and login
Emails    == {"a@example.com", "b@example.com"}
Passwords == {"secret", "other"}

\* schemas.UserCreate (its name left out) and schemas.LoginIn
Credentials == [email : Emails, password : Passwords]

\* argon2 of a password under a salt: a different value for every pair
Digest(salt, password) == <<"digest", salt, password>>

\* auth.py 8-9: the hash string holds the scheme, the salt and the digest
get_password_hash(password, salt) ==
    [scheme |-> "argon2", salt |-> salt, digest |-> Digest(salt, password)]

\* a verification that does not take the salt from the stored hash
verify_password_FixedSalt(plain_password, hashed_password) ==
    Digest(1, plain_password) = hashed_password.digest

\* auth.py 12-13: the digest of the plain password under the salt of the hash
verify_password(plain_password, hashed_password) ==
    Digest(hashed_password.salt, plain_password) = hashed_password.digest

\* auth.py 16-21 and 24-29: the claims the token is signed over
create_access_token(sub) ==
    [sub |-> sub, exp |-> now + ACCESS_TOKEN_EXPIRE_MINUTES * 60]

create_refresh_token(sub) ==
    [sub |-> sub, exp |-> now + REFRESH_TOKEN_EXPIRE_DAYS * 86400, type |-> "refresh"]

\* crud.py 17-18: the rows with this email, .first() takes the lowest id
get_user_by_email(email) == {u \in DOMAIN users : users[u].email = email}

\* main.py 27-33 and crud.py 8-13
signup(user_in) ==
    /\ IF get_user_by_email(user_in.email) # {}
       THEN /\ UNCHANGED <<users, signups>>
            /\ AdminAnswers([NoResponse EXCEPT !.op = "signup",
                                !.result = "EmailRegistered", !.request = user_in])
       ELSE \E salt \in 1..NumSalts :
            /\ users' = Append(users,
                           [email |-> user_in.email,
                            password_hash |-> get_password_hash(user_in.password, salt)])
            /\ signups' = signups \cup {user_in}
            /\ AdminAnswers([NoResponse EXCEPT !.op = "signup", !.result = "ok",
                                !.request = user_in,
                                !.body = [id |-> Len(users) + 1, email |-> user_in.email]])
    /\ UNCHANGED showtimes

\* main.py 40-51
login(form_data) ==
    LET found == get_user_by_email(form_data.email)
        id == CHOOSE u \in found : \A v \in found : u <= v
    IN /\ IF found = {} \/ ~verify_password(form_data.password, users[id].password_hash)
          THEN AdminAnswers([NoResponse EXCEPT !.op = "login",
                                !.result = "Unauthorized", !.request = form_data])
          ELSE AdminAnswers([NoResponse EXCEPT !.op = "login", !.result = "ok",
                                !.request = form_data,
                                !.body = [user |-> id,
                                          access_token |-> create_access_token(ToString(id)),
                                          refresh_token |-> create_refresh_token(ToString(id))]])
       /\ UNCHANGED <<showtimes, users, signups>>

\* ---------------------------------------------------------------- the clock
\* time passes; Redis drops the keys whose time to live has run out
Tick ==
    /\ now < MaxTime
    /\ now' = now + TickSeconds
    /\ redis' = [k \in DOMAIN redis |->
                    IF redis[k] # NoHold /\ redis[k].expires <= now + TickSeconds
                    THEN NoHold ELSE redis[k]]
    /\ response' = NoResponse
    /\ scenario' = NoScenario
    /\ view' = [t \in DOMAIN view |->
                   IF /\ view[t].statuses # <<>>
                      /\ \E x \in Seats : /\ redis[<<t, x>>] # NoHold
                                           /\ redis[<<t, x>>].expires <= now + TickSeconds
                   THEN [view[t] EXCEPT !.lapsed = TRUE] ELSE view[t]]
    /\ UNCHANGED <<redis_client, reservations, booked_seats, inflight, placed,
                   showtimes, users, signups>>

\* the tables of the seat requests empty, Redis empty, connected or not
InitSeats ==
    /\ redis_client \in BOOLEAN
    /\ now = 0
    /\ reservations = <<>>
    /\ booked_seats = {}
    /\ redis = [k \in (DOMAIN CatalogShowtimes) \X Seats |-> NoHold]
    /\ inflight = EmptyBag
    /\ response = NoResponse
    /\ placed = <<>>
    /\ view = [t \in DOMAIN CatalogShowtimes |-> NoView]

Init ==
    /\ InitSeats
    /\ showtimes = CatalogShowtimes
    /\ users = <<>>
    /\ signups = {}
    /\ scenario = NoScenario

\* the same, the scenario monitor following the requests from the start
InitOps ==
    /\ InitSeats
    /\ showtimes = CatalogShowtimes
    /\ users = <<>>
    /\ signups = {}
    /\ scenario = [NoScenario EXCEPT !.on = TRUE]

\* room for the reservation row of one more PlaceHold call, the calls in flight
\* counted
Room(max) == Len(reservations) + HoldsBeforeInsert < max

\* the steps of the requests in flight
Serve ==
    \/ \E me \in Requests : HoldCheckHeld(me)
    \/ \E me \in Requests : HoldInsert(me)
    \/ \E me \in Requests : HoldSetex(me)
    \/ \E me \in Requests : HoldAbort(me)
    \/ \E me \in Requests : ConfirmScan(me)
    \/ \E me \in Requests : \E k \in me.keys : ConfirmGet(me, k)
    \/ \E me \in Requests : ConfirmCommit(me)
    \/ \E me \in Requests : \E s \in me.keys : ConfirmDelete(me, s)

\* requests arrive at any time, up to NumProcs of them in flight
Next ==
    \/ \E t \in Showtimes, ids \in ContendedLists : Room(MaxReservations) /\ HoldCall(t, ids)
    \/ \E r \in 1..(Len(reservations) + 1) : ConfirmCall(r)
    \/ Serve
    \/ Tick

Spec == Init /\ [][Next]_vars

\* the same within one time to live: the clock stands still; more reservations,
\* shorter seat lists
NextWindow ==
    \/ \E t \in Showtimes, ids \in {l \in ContendedLists : Len(l) <= MaxSeatIdsWindow} :
          Room(MaxReservationsWindow) /\ HoldCall(t, ids)
    \/ \E r \in 1..(Len(reservations) + 1) : ConfirmCall(r)
    \/ Serve

SpecWindow == Init /\ [][NextWindow]_vars

\* one request at a time: a request arrives when none is in flight; a PlaceHold
\* call that fails its database checks needs no room in the reservations table
NextSeq ==
    \/ /\ inflight = EmptyBag
       /\ \E t \in Showtimes, ids \in SeatIdLists :
             /\ HoldPrecheck(t, ids) = "pass" => Room(MaxReservations)
             /\ HoldCall(t, ids)
    \/ /\ inflight = EmptyBag
       /\ \E r \in 1..(Len(reservations) + 1) : ConfirmCall(r)
    \/ Serve
    \/ Tick

SpecSeq == Init /\ [][NextSeq]_vars

\* one request at a time, the status view among them, and calls of either
\* store that raise
NextOps ==
    \/ /\ inflight = EmptyBag
       /\ \E t \in Showtimes, ids \in SeatIdLists :
             /\ HoldPrecheck(t, ids) = "pass" => Room(MaxReservationsOps)
             /\ HoldCall(t, ids)
    \/ /\ inflight = EmptyBag
       /\ \E r \in 1..(Len(reservations) + 1) : ConfirmCall(r)
    \/ /\ inflight = EmptyBag
       /\ \E t \in DOMAIN showtimes : GetSeats(t)
    \/ /\ inflight = EmptyBag
       /\ \E op \in {"hold", "confirm", "get_seats"} : DbErrorAtCall(op)
    \/ Serve
    \/ \E me \in Requests : GetSeatsKeys(me)
    \/ \E me \in Requests : RedisError(me)
    \/ \E me \in Requests : HoldInsertError(me)
    \/ \E me \in Requests : CommitError(me)
    \/ Tick

SpecOps == InitOps /\ [][NextOps]_vars

\* the admin endpoints of the showtimes, one call after another, on an empty table
InitAdmin ==
    /\ InitSeats
    /\ redis_client
    /\ showtimes = <<>>
    /\ users = <<>>
    /\ signups = {}
    /\ scenario = NoScenario

NextAdmin ==
    \/ \E showtime_in \in ShowtimeInputs : create_showtime(showtime_in)
    \/ \E id \in 1..MaxShowtimeRows, showtime_in \in ShowtimeInputs :
          update_showtime(id, showtime_in)
    \/ \E id \in 1..MaxShowtimeRows : delete_showtime(id)

SpecAdmin == InitAdmin /\ [][NextAdmin]_vars

\* signup and login, one call after another, on an empty users table
NextAuth ==
    \/ \E user_in \in Credentials : signup(user_in)
    \/ \E form_data \in Credentials : login(form_data)

SpecAuth == InitAdmin /\ [][NextAuth]_vars

\* ================================================================== claims
\* the rows of the booked_seats table for one seat of one showtime
RowsOf(showtime_id, seat_id) ==
    {b \in booked_seats : b.showtime_id = showtime_id /\ b.seat_id = seat_id}

\* the last step answered a request of kind op with this result
Answered(op, result) == response.op = op /\ response.result = result

\* C1: in every reachable state there is at most one BookedSeat row for each
\* (showtime, seat) pair, whatever PlaceHold and Confirm calls interleave.
C1_NoDoubleBooking ==
    \A t \in Showtimes, s \in Seats : Cardinality(RowsOf(t, s)) <= 1

\* a Confirm lost the race for a seat another reservation has booked
C1_Witness ==
    /\ Answered("confirm", "SeatConflict")
    /\ \E b \in booked_seats :
          /\ b.showtime_id = response.showtime_id
          /\ b.seat_id \in response.held_seats
          /\ b.reservation_id # response.reservation_id

\* C2: of the reservations whose PlaceHold calls succeeded for one seat of one
\* showtime, and whose Confirm calls start after those PlaceHold calls have
\* returned and end before a time to live lapses, at most one is confirmed.
C2_ExactlyOneConfirms ==
    \A r1, r2 \in DOMAIN reservations :
        ( /\ r1 # r2
          /\ reservations[r1].showtime_id = reservations[r2].showtime_id
          /\ placed[r1].returned /\ placed[r2].returned
          /\ ~placed[r1].early /\ ~placed[r2].early
          /\ placed[r1].seats \cap placed[r2].seats # {}
          /\ now < reservations[r1].expires_at
          /\ now < reservations[r2].expires_at )
        => ~( /\ reservations[r1].status = "confirmed"
              /\ reservations[r2].status = "confirmed" )

\* C3: while the clock stands still (no time to live lapses), a PlaceHold call
\* that starts after a PlaceHold call has succeeded for a seat of the same
\* showtime, the reservation of which is still held, does not succeed.
C3_HoldExclusivity ==
    (Answered("hold", "ok") /\ redis_client) =>
        \A r \in response.after :
            ~( /\ reservations[r].showtime_id = response.showtime_id
               /\ reservations[r].status = "held"
               /\ placed[r].seats \cap Range(response.seat_ids) # {} )

\* C4: a Hold entry lives less than HOLD_TTL_SECONDS: it is gone once that time
\* has elapsed since the setex that wrote it, by the passing of time alone, and
\* a seat with no live Hold entry and no BookedSeat row is reported available.
C4_ExpiryFreesSeats ==
    \A t \in Showtimes, s \in Seats :
        LET e == redis[<<t, s>>]
        IN /\ e # NoHold => (now < e.expires /\ e.expires <= now + HOLD_TTL_SECONDS)
           /\ (e = NoHold /\ RowsOf(t, s) = {}) => get_seats(t)[s] = "available"

\* the seats of a reservation that was held and never confirmed are available
\* again, nothing having been booked or released
C4_Witness ==
    /\ redis_client /\ booked_seats = {}
    /\ \E r \in DOMAIN reservations :
          /\ placed[r].returned /\ placed[r].seats # {}
          /\ reservations[r].status = "held"
          /\ now >= reservations[r].expires_at
          /\ \A s \in placed[r].seats :
                /\ redis[<<reservations[r].showtime_id, s>>] = NoHold
                /\ get_seats(reservations[r].showtime_id)[s] = "available"

\* C5: a Confirm call that gets past the fetch of its reservation and finds no
\* Hold entry whose value is its id answers HoldExpired, writes no BookedSeat
\* row and changes no reservation: one in status held stays held.
C5_ConfirmWithoutHold ==
    [][ ( /\ response'.op = "confirm"
          /\ response'.result # "ReservationNotFound"
          /\ response'.held_seats = {} )
        => ( /\ response'.result = "HoldExpired"
             /\ booked_seats' = booked_seats
             /\ reservations' = reservations ) ]_vars

\* HoldExpired for a reservation whose PlaceHold call died before it wrote a
\* Hold entry, no time having passed
C5_Witness ==
    /\ Answered("confirm", "HoldExpired")
    /\ redis_client /\ now = 0
    /\ ~placed[response.reservation_id].returned
    /\ placed[response.reservation_id].seats # {}
    /\ ~\E x \in Requests : x.op = "hold" /\ x.reservation_id = response.reservation_id
    /\ reservations[response.reservation_id].status = "held"

\* C6: a Confirm call collects a seat only when it reads a Hold entry of its
\* showtime whose value is its reservation id; the BookedSeat rows change only
\* by a commit that inserts the rows of exactly the collected seats and sets the
\* status to confirmed; the call then answers confirmed.
C6_BooksScannedSeats ==
    [][ /\ \A x \in BagToSet(inflight') :
              x.op = "confirm" =>
                 \A s \in x.held_seats :
                    \/ redis[<<x.showtime_id, s>>].value = x.reservation_id
                    \/ \E y \in Requests : /\ y.op = "confirm"
                                           /\ y.reservation_id = x.reservation_id
                                           /\ s \in y.held_seats
        /\ booked_seats' # booked_seats =>
              \E me \in Requests :
                 /\ me.op = "confirm" /\ me.pc = "commit"
                 /\ booked_seats' = booked_seats \cup
                       BookedRows(me.showtime_id, me.reservation_id, me.held_seats)
                 /\ reservations'[me.reservation_id].status = "confirmed"
        /\ (response'.op = "confirm" /\ response'.result = "confirmed") =>
              /\ reservations'[response'.reservation_id].status = "confirmed"
              /\ BookedRows(response'.showtime_id, response'.reservation_id,
                            response'.held_seats) \subseteq booked_seats' ]_vars

\* a Confirm call answered confirmed having booked fewer seats than its
\* PlaceHold call asked for
C6_Witness ==
    /\ Answered("confirm", "confirmed")
    /\ response.held_seats # {}
    /\ response.held_seats # placed[response.reservation_id].seats
    /\ {b \in booked_seats : b.reservation_id = response.reservation_id} =
          BookedRows(response.showtime_id, response.reservation_id, response.held_seats)

\* C7: a Confirm call that answers SeatConflict changes neither the BookedSeat
\* rows nor any reservation (one in status held stays held); a step that changes the BookedSeat rows adds the
\* whole row set of one Confirm call.
C7_AllOrNothing ==
    [][ /\ (response'.op = "confirm" /\ response'.result = "SeatConflict")
           => (booked_seats' = booked_seats /\ reservations' = reservations)
        /\ booked_seats' # booked_seats =>
              \E me \in Requests :
                 /\ me.op = "confirm" /\ me.pc = "commit"
                 /\ booked_seats' \ booked_seats =
                       BookedRows(me.showtime_id, me.reservation_id, me.held_seats) ]_vars

\* SeatConflict for a call with two seats, one of them booked by another
\* reservation, the other not booked at all
C7_Witness ==
    /\ Answered("confirm", "SeatConflict")
    /\ \E s1, s2 \in response.held_seats :
          /\ \E b \in RowsOf(response.showtime_id, s1) :
                b.reservation_id # response.reservation_id
          /\ RowsOf(response.showtime_id, s2) = {}
    /\ reservations[response.reservation_id].status = "held"

\* C8: a Confirm call goes past its fetch only for a reservation that exists
\* in status held; otherwise it answers ReservationNotFound, and that answer
\* changes neither table nor Redis.
C8_NotFoundChangesNothing ==
    [][ /\ (response'.op = "confirm" /\ response'.result = "ReservationNotFound")
           => /\ reservations' = reservations
              /\ booked_seats' = booked_seats
              /\ redis' = redis
              /\ ~( /\ response'.reservation_id \in DOMAIN reservations
                    /\ reservations[response'.reservation_id].status = "held" )
        /\ \A x \in BagToSet(inflight') :
              ( /\ x.op = "confirm" /\ x.pc = "scan"
                /\ CopiesIn(x, inflight') > CopiesIn(x, inflight) )
              => /\ x.reservation_id \in DOMAIN reservations
                 /\ reservations[x.reservation_id].status = "held"
        /\ ( /\ response'.op = "confirm" /\ response'.result = "HoldExpired"
             /\ inflight' = inflight )
           => /\ response'.reservation_id \in DOMAIN reservations
              /\ reservations[response'.reservation_id].status = "held" ]_vars

\* a second Confirm on a reservation already confirmed
C8_Witness ==
    /\ Answered("confirm", "ReservationNotFound")
    /\ response.reservation_id \in DOMAIN reservations
    /\ reservations[response.reservation_id].status = "confirmed"
    /\ booked_seats # {}

\* C9: a PlaceHold call answers InvalidSeatSelection exactly when some id of
\* seat_ids names no seat.
C9_InvalidIffUnknown ==
    response.op = "hold" =>
        ( response.result = "InvalidSeatSelection"
          <=> \E i \in DOMAIN response.seat_ids : response.seat_ids[i] \notin Seats )

C11_HoldWritesEntries ==
    ( /\ Answered("hold", "ok") /\ redis_client /\ booked_seats = {}
      /\ reservations[response.reservation_id].expires_at = now + HOLD_TTL_SECONDS )
    => \A i \in DOMAIN response.seat_ids :
          redis[<<response.showtime_id, response.seat_ids[i]>>] =
             [value |-> response.reservation_id, expires |-> now + HOLD_TTL_SECONDS]

\* C20: a PlaceHold call passes the held check of a seat only when it reads no
\* entry for it, and SeatsAlreadyHeld is raised by that check alone: once past
\* the checks a call is not stopped by what other calls write.  Each success
\* returns a reservation id no earlier call has returned.
C20_ChecksThenWrites ==
    [][ /\ \A me \in Requests :
              ( /\ me.op = "hold" /\ me.pc = "check_held"
                /\ \/ inflight' = (inflight (-) SetToBag({me})) (+)
                                     SetToBag({[me EXCEPT !.i = me.i + 1]})
                   \/ inflight' = (inflight (-) SetToBag({me})) (+)
                                     SetToBag({[me EXCEPT !.pc = "insert", !.i = 0]}) )
              => redis[<<me.showtime_id, me.seat_ids[me.i]>>] = NoHold
        /\ (response'.op = "hold" /\ response'.result = "SeatsAlreadyHeld")
              => \E me \in Requests :
                    /\ me.op = "hold" /\ me.pc = "check_held"
                    /\ redis[<<me.showtime_id, me.seat_ids[me.i]>>] # NoHold
                    /\ inflight' = inflight (-) SetToBag({me})
        /\ (response'.op = "hold" /\ response'.result = "ok")
              => /\ response'.reservation_id \in DOMAIN reservations'
                 /\ \/ response'.reservation_id \notin DOMAIN placed
                    \/ ~placed[response'.reservation_id].returned ]_vars

\* two PlaceHold calls have returned success for one seat of one showtime with
\* different reservation ids; no entry has lapsed or been deleted, so each call
\* read the seat's key before the other wrote it
C20_Witness ==
    /\ Answered("hold", "ok")
    /\ redis_client /\ now = 0 /\ booked_seats = {}
    /\ \E r \in DOMAIN placed :
          /\ r # response.reservation_id
          /\ placed[r].returned /\ placed[response.reservation_id].returned
          /\ reservations[r].showtime_id = response.showtime_id
          /\ placed[r].seats \cap Range(response.seat_ids) # {}

\* C12: a status view reports a seat booked if a BookedSeat row exists for it
\* and the showtime, else held if a Hold entry is live, else available; a seat
\* that is booked and still has a Hold entry is reported booked.
C12_BookedWins ==
    Answered("get_seats", "ok") =>
        \A i \in DOMAIN response.statuses :
            LET e == response.statuses[i]
            IN e.status = IF RowsOf(response.showtime_id, e.id) # {} THEN "booked"
                          ELSE IF redis[<<response.showtime_id, e.id>>] # NoHold THEN "held"
                          ELSE "available"

\* a view that reports booked a seat whose Hold entry lingers
C12_Witness ==
    /\ Answered("get_seats", "ok")
    /\ \E i \in DOMAIN response.statuses :
          /\ response.statuses[i].status = "booked"
          /\ redis[<<response.showtime_id, response.statuses[i].id>>] # NoHold

\* C13: a status view has exactly one entry for every seat of the auditorium
\* of the showtime and no entry for a seat of another auditorium.
C13_AuditoriumSeatsOnly ==
    Answered("get_seats", "ok") =>
        LET mine == {s \in Seats : SeatAuditorium(s) =
                                      showtimes[response.showtime_id].auditorium_id}
        IN /\ {response.statuses[i].id : i \in DOMAIN response.statuses} = mine
           /\ Len(response.statuses) = Cardinality(mine)

\* C14 as stated: a status view equals the view returned before it for the
\* same showtime when no request has written to a table or to Redis between.
C14_Idempotent ==
    [][ ( /\ response'.op = "get_seats" /\ response'.result = "ok"
          /\ view[response'.showtime_id].statuses # <<>> )
        => response'.statuses = view[response'.showtime_id].statuses ]_vars

\* C14: a status view equals the view returned before it for the same showtime
\* when no request has written to a table or to Redis between them and no Hold
\* entry of the showtime has lapsed between them.
C14_IdempotentNoLapse ==
    [][ ( /\ response'.op = "get_seats" /\ response'.result = "ok"
          /\ view[response'.showtime_id].statuses # <<>>
          /\ ~view[response'.showtime_id].lapsed )
        => response'.statuses = view[response'.showtime_id].statuses ]_vars

\* a second view of a showtime with a held seat, time having passed since the
\* first, no write and no lapse between
C14_Witness ==
    /\ Answered("get_seats", "ok")
    /\ view[response.showtime_id].again
    /\ now > 0
    /\ \E i \in DOMAIN response.statuses : response.statuses[i].status = "held"

\* C15: with Redis connected, no request but the scenario's since the start,
\* no call dying and no time passing: PlaceHold(1, [1, 2]) succeeds with
\* expires_at = now + HOLD_TTL_SECONDS; the view shows held, held, available;
\* Confirm of the reservation returns confirmed; the view shows booked, booked,
\* available; PlaceHold(1, [1]) fails with SeatsAlreadyBooked.
C15_Scenario ==
    (redis_client /\ scenario.on /\ response.op # "none") =>
        /\ scenario.stage = 1 =>
              /\ response.result = "ok"
              /\ response.reservation_id \in DOMAIN reservations
              /\ reservations[response.reservation_id].expires_at = now + HOLD_TTL_SECONDS
        /\ scenario.stage = 2 =>
              /\ response.result = "ok"
              /\ response.statuses = <<[id |-> 1, status |-> "held"],
                                       [id |-> 2, status |-> "held"],
                                       [id |-> 3, status |-> "available"]>>
        /\ scenario.stage = 3 =>
              /\ response.result = "confirmed"
              /\ response.reservation_id = scenario.reservation_id
        /\ scenario.stage = 4 =>
              /\ response.result = "ok"
              /\ response.statuses = <<[id |-> 1, status |-> "booked"],
                                       [id |-> 2, status |-> "booked"],
                                       [id |-> 3, status |-> "available"]>>
        /\ scenario.stage = 5 => response.result = "SeatsAlreadyBooked"

\* the scenario has run to its end
C15_Witness ==
    /\ redis_client /\ scenario.on /\ scenario.stage = 5
    /\ Answered("hold", "SeatsAlreadyBooked")
    /\ response.seat_ids = <<1>>
    /\ reservations[scenario.reservation_id].status = "confirmed"

\* C16: a status view that has reached its Redis call returns the view: it
\* does not fail when Redis cannot be reached.
C16_ViewSurvivesOutage ==
    [][ \A me \in Requests :
           ( /\ me.op = "get_seats" /\ me.pc = "keys"
             /\ inflight' = inflight (-) SetToBag({me}) )
           => response'.result = "ok" ]_vars

\* C17: a Confirm call answers SeatConflict only when a seat of its set has a
\* BookedSeat row, that is when the uniqueness constraint rejected the commit.
C17_ConflictIsConstraint ==
    Answered("confirm", "SeatConflict") =>
        \E b \in booked_seats :
            /\ b.showtime_id = response.showtime_id
            /\ b.seat_id \in response.held_seats

\* the showtimes a and b of the rows run at some same time in the same
\* auditorium: their intervals [starts_at, ends_at) share a point
SameTime(a, b) ==
    /\ a.auditorium_id = b.auditorium_id
    /\ \E x \in 0..(MaxShowTime + 1) :
          /\ a.starts_at <= x /\ x < a.ends_at
          /\ b.starts_at <= x /\ x < b.ends_at

\* C18: calls of create_showtime and update_showtime, one after another, leave
\* no two showtimes of one auditorium whose [starts_at, ends_at) intervals
\* overlap; a create or update whose showtime overlaps another stored showtime
\* of its auditorium is rejected and leaves the table as it was.
C18_NoOverlappingShowtimes ==
    [][ /\ \A i, j \in DOMAIN showtimes' :
              i # j => ~SameTime(showtimes'[i], showtimes'[j])
        /\ ( /\ response'.op \in {"create_showtime", "update_showtime"}
             /\ \E i \in DOMAIN showtimes :
                   /\ response'.op = "update_showtime" => i # response'.showtime_id
                   /\ SameTime(showtimes[i], response'.request) )
           => /\ response'.result = "ShowtimeOverlap"
              /\ showtimes' = showtimes ]_vars

\* an update was rejected for overlapping another showtime than its own, two
\* showtimes being stored in one auditorium
C18_Witness ==
    /\ Answered("update_showtime", "ShowtimeOverlap")
    /\ response.showtime_id \in DOMAIN showtimes
    /\ \E i \in DOMAIN showtimes :
          /\ i # response.showtime_id
          /\ SameTime(showtimes[i], response.request)
          /\ showtimes[i].auditorium_id = showtimes[response.showtime_id].auditorium_id
          /\ ~SameTime(showtimes[response.showtime_id], response.request)

\* C19: a login with an email and password that were signed up with succeeds
\* and returns an access token and a refresh token for that user; a signup with
\* an email that is in the users table is rejected and adds no user.
C19_SignupThenLogin ==
    [][ /\ (response'.op = "login" /\ response'.request \in signups) =>
              /\ response'.result = "ok"
              /\ users[response'.body.user].email = response'.request.email
              /\ response'.body.access_token.sub = ToString(response'.body.user)
              /\ response'.body.refresh_token.sub = ToString(response'.body.user)
              /\ response'.body.refresh_token.type = "refresh"
        /\ ( /\ response'.op = "signup"
             /\ \E u \in DOMAIN users : users[u].email = response'.request.email )
           => /\ response'.result = "EmailRegistered"
              /\ users' = users ]_vars

\* a login that succeeded for the second user, whose hash has the second salt
C19_Witness ==
    /\ Answered("login", "ok")
    /\ response.request \in signups
    /\ response.body.user = 2
    /\ users[2].password_hash.salt = 2
    /\ Len(users) = 2

\* C21: a PlaceHold call never overwrites or renews a live Hold entry: while an
\* entry is live, no step changes its value or the time at which it expires.
C21_SetIfAbsent ==
    [][ \A k \in DOMAIN redis :
           (redis[k] # NoHold /\ redis'[k] # NoHold) => redis'[k] = redis[k] ]_vars

\* C22: in every reachable state, a PlaceHold call that died between its
\* insert and its last setex included, the value of every Hold entry is the id
\* of a row of the reservations table, and that row is for the showtime of the
\* entry.
C22_HoldsPointAtReservations ==
    \A k \in DOMAIN redis :
        redis[k] # NoHold =>
            /\ redis[k].value \in DOMAIN reservations
            /\ reservations[redis[k].value].showtime_id = k[1]

\* a PlaceHold call for two seats died after its first setex: the entry of the
\* first seat is live, the second seat has none
C22_Witness ==
    /\ Answered("hold", "InternalError")
    /\ Len(response.seat_ids) = 2
    /\ response.reservation_id \in DOMAIN reservations
    /\ redis[<<response.showtime_id, response.seat_ids[1]>>].value = response.reservation_id
    /\ redis[<<response.showtime_id, response.seat_ids[2]>>] = NoHold

\* C23: a Hold entry goes away, time standing still, only by a delete of a
\* Confirm call whose reservation is confirmed and whose seat has a BookedSeat
\* row of that reservation; a Confirm call that answers ReservationNotFound,
\* HoldExpired or SeatConflict has deleted no Hold entry.
C23_DeleteAfterCommit ==
    [][ /\ \A k \in DOMAIN redis :
              (redis[k] # NoHold /\ redis'[k] = NoHold /\ now' = now) =>
                 \E me \in Requests :
                    /\ me.op = "confirm" /\ me.pc = "delete"
                    /\ me.showtime_id = k[1] /\ k[2] \in me.keys
                    /\ reservations[me.reservation_id].status = "confirmed"
                    /\ \E b \in RowsOf(k[1], k[2]) : b.reservation_id = me.reservation_id
        /\ ( /\ response'.op = "confirm"
             /\ response'.result \in {"ReservationNotFound", "HoldExpired", "SeatConflict"} )
           => /\ redis' = redis
              /\ \A me \in Requests :
                    (me.op = "confirm" /\ inflight' = inflight (-) SetToBag({me}))
                       => me.pc \in {"scan", "get", "commit"} ]_vars

\* a Confirm call answered confirmed for two seats: both entries are deleted,
\* both seats have their row, the reservation is confirmed
C23_Witness ==
    /\ Answered("confirm", "confirmed")
    /\ redis_client
    /\ Cardinality(response.held_seats) = 2
    /\ reservations[response.reservation_id].status = "confirmed"
    /\ \A s \in response.held_seats :
          /\ redis[<<response.showtime_id, s>>] = NoHold
          /\ \E b \in RowsOf(response.showtime_id, s) :
                b.reservation_id = response.reservation_id

\* C24: a Confirm call deletes only Hold entries whose value is its
\* reservation id: no step of a Confirm call removes a live entry whose value
\* is the id of another reservation.
C24_DeletesOwnEntries ==
    [][ \A k \in DOMAIN redis :
           (redis[k] # NoHold /\ redis'[k] = NoHold /\ now' = now) =>
              \E me \in Requests :
                 /\ me.op = "confirm" /\ me.pc = "delete"
                 /\ me.reservation_id = redis[k].value ]_vars

\* C25: a reservation row is created in status held; the only change of status
\* any step makes is held to confirmed; a confirmed reservation keeps its
\* status; no step, the passing of time included, writes another status, so
\* that a reservation whose Hold entries lapsed stays held.
C25_Lifecycle ==
    [][ /\ DOMAIN reservations \subseteq DOMAIN reservations'
        /\ \A r \in DOMAIN reservations' :
              IF r \notin DOMAIN reservations
              THEN reservations'[r].status = "held"
              ELSE \/ reservations'[r].status = reservations[r].status
                   \/ /\ reservations[r].status = "held"
                      /\ reservations'[r].status = "confirmed"
                      /\ \E me \in Requests : /\ me.op = "confirm" /\ me.pc = "commit"
                                              /\ me.reservation_id = r
        /\ now' # now => reservations' = reservations ]_vars

\* one reservation is confirmed; another, whose PlaceHold call returned, has
\* outlived its expires_at and all its Hold entries and is still held
C25_Witness ==
    \E r1, r2 \in DOMAIN reservations :
        /\ reservations[r1].status = "confirmed"
        /\ reservations[r2].status = "held"
        /\ placed[r2].returned /\ placed[r2].seats # {}
        /\ now >= reservations[r2].expires_at
        /\ \A k \in DOMAIN redis : redis[k] = NoHold \/ redis[k].value # r2
        /\ redis_client

\* C26: a PlaceHold call that answers InvalidSeatSelection, SeatsAlreadyBooked
\* or SeatsAlreadyHeld has created no reservation row, and its answering step
\* changes no table and no Hold entry.
C26_FailedHoldChangesNothing ==
    [][ ( /\ response'.op = "hold"
          /\ response'.result \in {"InvalidSeatSelection", "SeatsAlreadyBooked",
                                   "SeatsAlreadyHeld"} )
        => /\ reservations' = reservations
           /\ booked_seats' = booked_seats
           /\ redis' = redis
           /\ response'.reservation_id = 0
           /\ \A me \in Requests :
                 (me.op = "hold" /\ inflight' = inflight (-) SetToBag({me}))
                    => me.pc = "check_held" ]_vars

\* SeatsAlreadyHeld for a call with two seats, the second of them held by a
\* reservation that is still there
C26_Witness ==
    /\ Answered("hold", "SeatsAlreadyHeld")
    /\ Len(response.seat_ids) = 2
    /\ redis[<<response.showtime_id, response.seat_ids[1]>>] = NoHold
    /\ redis[<<response.showtime_id, response.seat_ids[2]>>] # NoHold
    /\ reservations # <<>>

\* C27: for one reservation, whatever Confirm calls run concurrently, its
\* BookedSeat rows are inserted by one commit at most, and that commit finds
\* the reservation in status held: at most one of the calls answers confirmed.
C27_ConfirmsOnce ==
    [][ \A me \in Requests :
           ( /\ me.op = "confirm" /\ me.pc = "commit"
             /\ CopiesIn(me, inflight') < CopiesIn(me, inflight)
             /\ booked_seats' # booked_seats )
           => /\ reservations[me.reservation_id].status = "held"
              /\ ~\E b \in booked_seats : b.reservation_id = me.reservation_id ]_vars

\* C28: in every reachable state a reservation is confirmed exactly when a
\* BookedSeat row references it: every row references a confirmed reservation
\* of the showtime of the row, and no held reservation has a row.
C28_ConfirmedIffBooked ==
    /\ \A b \in booked_seats :
          /\ b.reservation_id \in DOMAIN reservations
          /\ reservations[b.reservation_id].status = "confirmed"
          /\ reservations[b.reservation_id].showtime_id = b.showtime_id
    /\ \A r \in DOMAIN reservations :
          reservations[r].status = "confirmed" =>
             \E b \in booked_seats : b.reservation_id = r

\* a confirmed reservation with its row next to a held one that has none,
\* the Confirm call of which answered SeatConflict
C28_Witness ==
    /\ Answered("confirm", "SeatConflict")
    /\ reservations[response.reservation_id].status = "held"
    /\ ~\E b \in booked_seats : b.reservation_id = response.reservation_id
    /\ \E r \in DOMAIN reservations :
          /\ reservations[r].status = "confirmed"
          /\ \E b \in booked_seats : b.reservation_id = r

\* C29: every Hold entry of a reservation has lapsed by the expires_at stored
\* for it, and no Confirm call answers confirmed for a reservation at a time
\* later than that expires_at.
C29_HoldsEndByExpiresAt ==
    /\ \A k \in DOMAIN redis :
          (redis[k] # NoHold /\ redis[k].value \in DOMAIN reservations) =>
             redis[k].expires <= reservations[redis[k].value].expires_at
    /\ Answered("confirm", "confirmed") =>
          now <= reservations[response.reservation_id].expires_at
====
